---- MODULE Spec2Model ----
(***************************************************************************)
(* TBRS* working-memory simulation (tbrs_compatible_with_bert_model.c).    *)
(*                                                                         *)
(* Numbers.  The program computes in C floats.  Here every real quantity   *)
(* is a fixed-point integer: item-vector values, association weights and   *)
(* activations are counted in units of 1/One, proportions and exponentials *)
(* in units of 1/EtaDen, simulated time in ticks of half a second, and     *)
(* processing rates in 1/s.  Products are divided back with \div.          *)
(*                                                                         *)
(* Sizes.  The arrays of the program (9 blocks of 6 position units, 100    *)
(* positions, 10 memoranda, 90 distractors, 100 item units) are scaled     *)
(* down; the scaled sizes are the Max... definitions below.                *)
(***************************************************************************)
EXTENDS Integers, Sequences, FiniteSets, TLC

\* ------------------------------------------------------------------ sizes
MaxBlocks == 2
MaxBlockSize == 2
MaxPos == 3
MaxMemo == 2
MaxDist == 2
MaxLetters == 3
MaxTrials == 2

nbUnitBlocks == MaxBlocks
sizeOfPositionBlocks == MaxBlockSize
maxPosition == MaxPos
maxMemoranda == MaxMemo
maxDistractors == MaxDist
\* the macro is unparenthesised in the source; every use is additive
maxItem == maxMemoranda + maxDistractors
nbPositionUnits == nbUnitBlocks * sizeOfPositionBlocks
\* 100 in the source, above nbPositionUnits = 54; kept no smaller than it here
nbItemUnits == nbPositionUnits

\* fixed-point denominators
One == 16 * 9
EtaDen == 4 * 4

VARIABLES
  positionVectors,    \* int positionVectors[maxPosition+1][nbPositionUnits+1]
  genP, genI,         \* generatePositionRepresentations: loop variables p and i
  call, ret,          \* a function called on its own: its arguments, its results
  pc,                 \* where the program is
  param,              \* the parameters set on the command line, and VERBOSE
  itemVectorsInWM, itemVectorsInLTM, itemPositionMatrix,
  globalTime, distractorNumber, lastItem,
  var_te, var_tr, var_eta, var_ta,
  ub,                 \* an access went past the end of an array
  out,                \* what the last operation printed under VERBOSE
  lastPosition, idxstimulus, recalled,         \* main
  timeAvailable, currentPosition,              \* refresh
  position, activationMax, bestLTMItem, bestWMItem,  \* recall, refresh
  minTrueActivation,  \* at the start of recall: the lowest activation of a
                      \* studied item at its own position, without noise
  embeddingsList,     \* float embeddingsList[maxMemoranda][nbItemUnits]
  cptReplic           \* main: the number of the trial

progVars == <<param, itemVectorsInWM, itemVectorsInLTM, itemPositionMatrix,
              globalTime, distractorNumber, lastItem, var_te, var_tr, var_eta,
              var_ta, ub, out, embeddingsList>>
mainVars == <<lastPosition, idxstimulus, recalled, timeAvailable, currentPosition,
              position, activationMax, bestLTMItem, bestWMItem,
              minTrueActivation, cptReplic>>
trialVars == <<progVars, mainVars>>
vars == <<positionVectors, genP, genI, call, ret, pc, trialVars>>

\* the variables of a trial, for a specification that runs no trial
NoTrial ==
  /\ param = <<>> /\ itemVectorsInWM = <<>> /\ itemVectorsInLTM = <<>>
  /\ itemPositionMatrix = <<>> /\ globalTime = 0 /\ distractorNumber = 0
  /\ lastItem = 0 /\ var_te = 0 /\ var_tr = 0 /\ var_eta = 0 /\ var_ta = 0
  /\ ub = FALSE /\ out = <<>>
  /\ lastPosition = 0 /\ idxstimulus = 0 /\ recalled = <<>>
  /\ timeAvailable = 0 /\ currentPosition = 0
  /\ position = 0 /\ activationMax = 0 /\ bestLTMItem = 0 /\ bestWMItem = 0
  /\ minTrueActivation = 0
  /\ embeddingsList = <<>> /\ cptReplic = 0

NoCall == [fn |-> "none"]

\* ------------------------------------------------- position representations
Positions == 1..maxPosition
PosUnits == 1..nbPositionUnits
Blocks == 0..(nbUnitBlocks - 1)
BlockUnits(i) == (i * sizeOfPositionBlocks + 1)..((i + 1) * sizeOfPositionBlocks)

\* what an array cell holds before the program writes it
Uninit == {0, 1, 5}

\* for(i=1;i<=nbPositionUnits;i++) positionVectors[1][i]=0;
ZeroFirstPosition(pv) == [pv EXCEPT ![1] = [u \in PosUnits |-> 0]]

\* randomPosition=1+rand()%sizeOfPositionBlocks;
\* positionVectors[p][i*sizeOfPositionBlocks+randomPosition]=1;
SetOne(pv, p, i, randomPosition) ==
  [pv EXCEPT ![p][i * sizeOfPositionBlocks + randomPosition] = 1]

\* the replace branch: the block's units are set to 0 and a new 1 is added
ReplaceBlock_Mut(pv, p, i, randomPosition) ==
  SetOne(pv, p, i, randomPosition)

ReplaceBlock(pv, p, i, randomPosition) ==
  SetOne([pv EXCEPT ![p] = [u \in PosUnits |->
            IF u \in BlockUnits(i) THEN 0 ELSE pv[p][u]]], p, i, randomPosition)

\* the copy branch: the block is the same as the previous position's
CopyBlock(pv, p, i) ==
  [pv EXCEPT ![p] = [u \in PosUnits |->
     IF u \in BlockUnits(i) THEN pv[p - 1][u] ELSE pv[p][u]]]

GenInit ==
  /\ \E g \in Uninit :
       positionVectors = [p \in Positions |-> [u \in PosUnits |-> g]]
  /\ genP = 0
  /\ genI = 0
  /\ call = NoCall /\ ret = NoCall
  /\ pc = "gen"
  /\ NoTrial

\* lines 738-739
GenZero ==
  /\ pc = "gen" /\ genP = 0
  /\ positionVectors' = ZeroFirstPosition(positionVectors)
  /\ genP' = 1
  /\ genI' = 0
  /\ UNCHANGED <<pc, call, ret, trialVars>>

GenAdvance(i) ==
  /\ UNCHANGED <<call, ret, trialVars>>
  /\ IF i = nbUnitBlocks - 1
     THEN /\ genI' = 0
          /\ genP' = genP + 1
          /\ pc' = IF genP + 1 > maxPosition THEN "generated" ELSE "gen"
     ELSE /\ genI' = i + 1
          /\ UNCHANGED <<genP, pc>>

\* lines 740-743
GenFirst ==
  /\ pc = "gen" /\ genP = 1
  /\ \E randomPosition \in 1..sizeOfPositionBlocks :
       positionVectors' = SetOne(positionVectors, 1, genI, randomPosition)
  /\ GenAdvance(genI)

\* lines 747-755: rand()%100 > param_P*100
GenReplace ==
  /\ pc = "gen" /\ genP >= 2 /\ genP <= maxPosition
  /\ \E randomPosition \in 1..sizeOfPositionBlocks :
       positionVectors' = ReplaceBlock(positionVectors, genP, genI, randomPosition)
  /\ GenAdvance(genI)

\* lines 756-760
GenCopy ==
  /\ pc = "gen" /\ genP >= 2 /\ genP <= maxPosition
  /\ positionVectors' = CopyBlock(positionVectors, genP, genI)
  /\ GenAdvance(genI)

GenNext == GenZero \/ GenFirst \/ GenReplace \/ GenCopy

SpecPos == GenInit /\ [][GenNext]_vars

\* C1: after generatePositionRepresentations every position 1..maxPosition has,
\* in each block, exactly one unit equal to 1 and every other unit equal to 0.
OneHot(v, i) ==
  /\ \A u \in BlockUnits(i) : v[u] \in {0, 1}
  /\ Cardinality({u \in BlockUnits(i) : v[u] = 1}) = 1

C1_OneActiveUnitPerBlock ==
  pc = "generated" =>
    \A p \in Positions : \A i \in Blocks : OneHot(positionVectors[p], i)

\* a generated sequence in which some block was replaced and another copied
C1_Witness ==
  /\ pc = "generated"
  /\ \E i \in Blocks : \E u \in BlockUnits(i) :
       positionVectors[1][u] # positionVectors[maxPosition][u]
  /\ \E i \in Blocks : \A u \in BlockUnits(i) :
       positionVectors[1][u] = positionVectors[maxPosition][u]

\* ------------------------------------------------------------ item vectors
Items == 1..maxItem
ItemRows == 0..maxItem
ItemUnits == 1..nbItemUnits
ItemCols == 0..nbItemUnits
Sentinel == 0 - One

\* (int)x of a float x: truncation toward zero
IntCast(x) == IF x >= 0 THEN x \div One ELSE 0 - ((0 - x) \div One)

\* interfere, lines 321-330; p in units of 1/EtaDen
interfere(oldItemVector, newItemVector, p) ==
  [j \in DOMAIN oldItemVector |->
     IF /\ j \in ItemUnits
        /\ oldItemVector[j] # newItemVector[j]
        /\ IntCast(oldItemVector[j]) # -1
        /\ IntCast(newItemVector[j]) # -1
     THEN (oldItemVector[j] * (EtaDen - p) + newItemVector[j] * p) \div EtaDen
     ELSE oldItemVector[j]]

\* values an item unit can hold: the sentinel, values of [0,1], and values a
\* preloaded embedding can bring from outside [0,1]
UnitValues == {Sentinel, 0, One \div 2, One}
EmbeddingValues == UnitValues \cup {0 - (3 * One) \div 2, 0 - One \div 2}

\* vectors over the item units, the second half repeating the first
SampleVectors(values) ==
  {v \in [ItemCols -> values] :
     /\ v[0] = 0
     /\ \A j \in ItemUnits : j > 2 => v[j] = v[j - 2]}

Proportions == {0, EtaDen \div 2, EtaDen}

InterfereInit ==
  /\ \E a \in SampleVectors(EmbeddingValues), b \in SampleVectors(EmbeddingValues),
        p \in Proportions :
       call = [fn |-> "interfere", oldItemVector |-> a, newItemVector |-> b, p |-> p]
  /\ ret = NoCall
  /\ pc = "call"
  /\ genP = 0 /\ genI = 0
  /\ positionVectors = [q \in Positions |-> [u \in PosUnits |-> 0]]
  /\ NoTrial

InterfereCall ==
  /\ pc = "call" /\ call.fn = "interfere"
  /\ ret' = [fn |-> "interfere",
             oldItemVector |-> interfere(call.oldItemVector, call.newItemVector, call.p),
             newItemVector |-> call.newItemVector]
  /\ pc' = "returned"
  /\ UNCHANGED <<call, positionVectors, genP, genI, trialVars>>

SpecInterfere == InterfereInit /\ [][InterfereCall]_vars

\* C4: interfere(a, b, 0) leaves a unchanged; interfere(a, b, 1) sets every
\* dimension where neither value is the sentinel -1 and the values differ to
\* b's value; whatever the proportion, a dimension where a or b is the sentinel
\* or where the two are equal is untouched; b is never modified.
C4_InterfereContract ==
  (pc = "returned" /\ ret.fn = "interfere") =>
    LET a == call.oldItemVector
        b == call.newItemVector
        r == ret.oldItemVector
    IN /\ call.p = 0 => r = a
       /\ call.p = EtaDen =>
            \A j \in ItemUnits :
              (a[j] # Sentinel /\ b[j] # Sentinel /\ a[j] # b[j]) => r[j] = b[j]
       /\ \A j \in ItemUnits :
            (a[j] = Sentinel \/ b[j] = Sentinel \/ a[j] = b[j]) => r[j] = a[j]
       /\ ret.newItemVector = b

\* ------------------------------------------------------- association matrix
\* decay, lines 306-315; the factor is fnum/fden
decay_Mut(ipm, fnum, fden, excludedItem) ==
  [i \in DOMAIN ipm |->
     [j \in DOMAIN ipm[i] |->
        IF /\ i \in 1..(maxItem - 1) /\ j \in PosUnits
           /\ (excludedItem = -1 \/ i # excludedItem)
           /\ ipm[i][j] # 0
        THEN (ipm[i][j] * fnum) \div fden
        ELSE ipm[i][j]]]

decay(ipm, fnum, fden, excludedItem) ==
  [i \in DOMAIN ipm |->
     [j \in DOMAIN ipm[i] |->
        IF /\ i \in 1..maxItem /\ j \in PosUnits
           /\ (excludedItem = -1 \/ i # excludedItem)
           /\ ipm[i][j] # 0
        THEN (ipm[i][j] * fnum) \div fden
        ELSE ipm[i][j]]]

PosCols == 0..nbPositionUnits
\* (float)1/9 in the source, one over the number of unit blocks
param_L == One \div nbUnitBlocks

\* matrices with one weight per row, weights that two decays keep exact
SampleWeights == {0, param_L \div 2, param_L}
SampleMatrices ==
  {[i \in ItemRows |-> [j \in PosCols |-> IF j = 0 THEN 0 ELSE w[i]]] :
     w \in [ItemRows -> SampleWeights]}
\* exp(-D*t) for two durations, and no decay at all
SampleFactors == {EtaDen \div 2, (3 * EtaDen) \div 4, EtaDen}

DecayInit ==
  /\ \E m \in SampleMatrices, e \in {-1} \cup Items :
       /\ call = [fn |-> "decay", itemPositionMatrix |-> m, excludedItem |-> e]
       /\ ret = [fn |-> "decay", itemPositionMatrix |-> m, factors |-> <<>>]
  /\ pc = "call"
  /\ genP = 0 /\ genI = 0
  /\ positionVectors = [q \in Positions |-> [u \in PosUnits |-> 0]]
  /\ NoTrial

\* one more decay of the same matrix with the same excluded item
DecayCall ==
  /\ pc = "call" /\ call.fn = "decay" /\ Len(ret.factors) < 2
  /\ \E f \in SampleFactors :
       ret' = [fn |-> "decay",
               itemPositionMatrix |->
                 decay(ret.itemPositionMatrix, f, EtaDen, call.excludedItem),
               factors |-> Append(ret.factors, f)]
  /\ UNCHANGED <<call, pc, positionVectors, genP, genI, trialVars>>

SpecDecay == DecayInit /\ [][DecayCall]_vars

\* C5: decay with factor f1 and then with factor f2 gives every item the
\* weights of one decay with factor f1*f2; the excluded item's row is unchanged,
\* and with excludedItem = -1 every item 1..maxItem is decayed.
C5_DecayComposes ==
  (call.fn = "decay" /\ Len(ret.factors) = 2) =>
    LET m0 == call.itemPositionMatrix
        m2 == ret.itemPositionMatrix
        e == call.excludedItem
        f == ret.factors[1] * ret.factors[2]
    IN /\ m2 = decay(m0, f, EtaDen * EtaDen, e)
       /\ \A i \in Items : \A j \in PosUnits :
            m2[i][j] = IF i = e THEN m0[i][j]
                       ELSE (m0[i][j] * f) \div (EtaDen * EtaDen)

\* two real decays of a matrix whose last item had a weight and is not excluded
C5_Witness ==
  /\ call.fn = "decay" /\ Len(ret.factors) = 2
  /\ ret.factors[1] < EtaDen /\ ret.factors[2] < EtaDen
  /\ call.excludedItem \in 1..(maxItem - 1)
  /\ call.itemPositionMatrix[maxItem][1] = param_L
  /\ call.itemPositionMatrix[call.excludedItem][1] = param_L
  /\ ret.itemPositionMatrix[maxItem][1] < param_L

\* ------------------------------------------------------------------ numbers
RECURSIVE SumOver(_, _)
\* the sum of f[x] for x in S
SumOver(S, f) ==
  IF S = {} THEN 0
  ELSE LET x == CHOOSE y \in S : TRUE IN f[x] + SumOver(S \ {x}, f)

RECURSIVE ISqrtIn(_, _, _)
ISqrtIn(x, lo, hi) ==
  IF lo >= hi THEN lo
  ELSE LET mid == (lo + hi + 1) \div 2
       IN IF mid * mid <= x THEN ISqrtIn(x, mid, hi) ELSE ISqrtIn(x, lo, mid - 1)
\* sqrt
ISqrt(x) == ISqrtIn(x, 0, 8 * One)

\* exp(-q/4) in units of 1/EtaDen, q >= 0 in quarters
ExpTable == <<12, 10, 8, 6, 5, 4, 3, 2, 2, 1, 1, 1, 1>>
ExpNeg(q) ==
  IF q <= 0 THEN EtaDen ELSE IF q <= Len(ExpTable) THEN ExpTable[q] ELSE 0

\* rates are in tenths of 1/s, durations in ticks of half a second:
\* the exponent rate*duration, in quarters, rounded to the nearest
RateTimesTicks(r, ticks) == (2 * r * ticks + 5) \div 10
\* a logarithm (in halves) over a rate: a duration in ticks
LogOverRate(lg, r) == (lg * 10) \div r
\* if (var_r<.1) var_r=.1;
FloorRate(r) == IF r < 1 THEN 1 ELSE r

\* rmse, lines 292-301
rmse(v1, v2, size) ==
  ISqrt(SumOver(1..size, [i \in 1..size |-> (v1[i] - v2[i]) * (v1[i] - v2[i])])
          \div size)

\* ----------------------------------------------------------------- the trial
(***************************************************************************)
(* The functions of the program are operators on a record s of the         *)
(* program's variables:                                                    *)
(*   positionVectors, itemVectorsInWM, itemVectorsInLTM, itemPositionMatrix*)
(*   globalTime, distractorNumber, lastItem, var_te, var_tr, var_eta,      *)
(*   var_ta, the parameters (param), out (what VERBOSE printed) and ub     *)
(*   (an access went past the end of an array).                            *)
(* A row index past the end of an array reads 0 and its writes are lost.   *)
(***************************************************************************)
presentationTime == 3
\* -log(1-param_tauE) and -log(1-param_tauOp), tauE = tauOp = .95, in halves
logTauE == 6
logTauOp == 6
\* param_R = 6 and param_Tr = .5 (run with "Tr .5"): -log(1-var_tauR) = R*Tr
param_R == 60
param_Tr == 1
logInvTauR == (param_R * param_Tr) \div 10
\* .5
distractorEncodingWeight == EtaDen \div 2
\* int param_attentionalFocusSize=1, and a focus of two positions
param_attentionalFocusSize == 1
FocusOfTwo == 2
\* *activationMax=-99999; float minRmse=99999;
Huge == 99999 * One

min(val1, val2) == IF val1 < val2 THEN val1 ELSE val2
\* int max(int val1,int val2): the arguments are converted to int
max(val1, val2) ==
  IF IntCast(val1) > IntCast(val2) THEN IntCast(val1) ELSE IntCast(val2)

RowAt(arr, i, cols) == IF i \in DOMAIN arr THEN arr[i] ELSE [j \in cols |-> 0]
Trace_Mut(s, line) ==
  IF s.param.VERBOSE = 1
  THEN [s EXCEPT !.out = Append(@, line), !.globalTime = @ + 1] ELSE s

\* if (VERBOSE) printf(...)
Trace(s, line) == IF s.param.VERBOSE = 1 THEN [s EXCEPT !.out = Append(@, line)] ELSE s

Live(s) == 1..(maxMemoranda + s.distractorNumber)

\* .0001, the second argument of max at line 367: the smallest positive number
\* of the fixed point
NoiseFloor == 1

\* lines 359-367: the activation of one item at position pos
Activation(s, pos, item, noise) ==
  LET row == RowAt(s.itemPositionMatrix, item, PosCols)
      pv == s.positionVectors[pos]
  IN SumOver({i \in PosUnits : pv[i] # 0}, [i \in PosUnits |-> pv[i] * row[i]])
       + noise * max(s.param.param_sigma, NoiseFloor)

RECURSIVE ScanMax_Mut(_, _, _, _)
ScanMax_Mut(acts, item, n, acc) ==
  IF item > n THEN acc
  ELSE ScanMax_Mut(acts, item + 1, n,
         IF acts[item] >= acc.activationMax
         THEN [activationMax |-> acts[item], bestWMItem |-> item]
         ELSE acc)

RECURSIVE ScanMax(_, _, _, _)
\* lines 358-377: if (somme > *activationMax)
ScanMax(acts, item, n, acc) ==
  IF item > n THEN acc
  ELSE ScanMax(acts, item + 1, n,
         IF acts[item] > acc.activationMax
         THEN [activationMax |-> acts[item], bestWMItem |-> item]
         ELSE acc)

RECURSIVE ScanMin_Mut(_, _, _, _)
ScanMin_Mut(errs, item, n, acc) ==
  IF item > n THEN acc
  ELSE ScanMin_Mut(errs, item + 1, n,
         IF errs[item] <= acc.minRmse
         THEN [minRmse |-> errs[item], retrievedItem |-> item]
         ELSE acc)

RECURSIVE ScanMin(_, _, _, _)
\* lines 413-421: if (aRmse<minRmse)
ScanMin(errs, item, n, acc) ==
  IF item > n THEN acc
  ELSE ScanMin(errs, item + 1, n,
         IF errs[item] < acc.minRmse
         THEN [minRmse |-> errs[item], retrievedItem |-> item]
         ELSE acc)

\* lines 415-416: the RMSE of every live item's LTM vector to the best WM item
RmseToLTM(s, bestWM) ==
  [item \in Live(s) |->
     rmse(RowAt(s.itemVectorsInWM, bestWM, ItemCols),
          RowAt(s.itemVectorsInLTM, item, ItemCols), nbItemUnits)]

\* lines 346-353: the duration of a retrieval for recall, d.r the rate drawn
RetrievalTime(s, status, d) ==
  IF status = 0
  THEN [s EXCEPT !.var_tr = min(LogOverRate(logTauE, FloorRate(d.r)), presentationTime)]
  ELSE s

\* lines 355-377: the best WM item at position pos, d.noise the deviate drawn
BestWM(s, pos, d) ==
  ScanMax([item \in Live(s) |-> Activation(s, pos, item, d.noise)], 1,
          maxMemoranda + s.distractorNumber,
          [activationMax |-> 0 - Huge, bestWMItem |-> 0])

\* lines 406-428: the item returned, and the three out-parameters
Retrieved(s, best) ==
  [s |-> IF best.activationMax < s.param.param_theta
         THEN Trace(s, "No memoranda are above the theta threshold.")
         ELSE Trace(s, "closest LTM item to the best WM item"),
   retrievedItem |->
     IF best.activationMax < s.param.param_theta THEN 0
     ELSE ScanMin(RmseToLTM(s, best.bestWMItem), 1,
                  maxMemoranda + s.distractorNumber,
                  [minRmse |-> Huge, retrievedItem |-> 0]).retrievedItem,
   activationMax |-> best.activationMax,
   retrievalDuration |-> s.var_tr,
   bestWMItem |-> best.bestWMItem]

\* retrieve, lines 336-429.  The results are the returned item and the three
\* out-parameters; s is the program state after the call.
retrieve(s0, pos, status, d) ==
  Retrieved(Trace(RetrievalTime(s0, status, d), "activation values"),
            BestWM(s0, pos, d))

\* ---------------------------------------------------------- pattern creation
\* pattern[i] of a row of an array float a[maxItem+1][nbItemUnits+1]: the rows
\* are contiguous, so an index past nbItemUnits is a cell of a later row
RowWidth == nbItemUnits + 1
FlatRow(row, i) == row + i \div RowWidth
FlatCol(i) == i % RowWidth
FlatGet(arr, row, i) ==
  IF FlatRow(row, i) \in DOMAIN arr THEN arr[FlatRow(row, i)][FlatCol(i)] ELSE 0
FlatSet(arr, row, i, v) ==
  IF FlatRow(row, i) \in DOMAIN arr
  THEN [arr EXCEPT ![FlatRow(row, i)][FlatCol(i)] = v] ELSE arr
\* pattern[i] = val(i) for every i of S
FlatFill(arr, row, S, val(_)) ==
  [r \in DOMAIN arr |-> [c \in DOMAIN arr[r] |->
     LET i == (r - row) * RowWidth + c
     IN IF i \in S THEN val(i) ELSE arr[r][c]]]

\* the deviates randomNormal and rand() are drawn from
Deviates == {0 - One, One}
\* 1
param_itemDistractorNoise == One
\* .4
param_itemDistractorOverlap == (2 * EtaDen) \div 5

\* createSimilarRandomPattern, lines 234-245: one unit's value.  dev is the
\* standard normal deviate; the uniform draw is taken from it too.
SimilarValue(ref, std, dev) ==
  IF ref = Sentinel
  THEN (dev + One) \div 4
  ELSE LET val == ref + (std * dev) \div One
       IN IF val < 0 THEN 0 ELSE IF val > One THEN One ELSE val

\* createSimilarRandomPattern, lines 227-246
createSimilarRandomPattern(arr, row, refArr, refRow, std, lo, hi, dev) ==
  LET val(i) == SimilarValue(FlatGet(refArr, refRow, i), std, dev)
  IN FlatFill(arr, row, lo..hi, val)

RECURSIVE Shuffle(_, _, _, _, _, _)
\* lines 277-283: alea is rand()%patternSize, the same value drawn at each step
Shuffle(arr, row, c, firstUsedUnit, patternSize, alea) ==
  IF c <= firstUsedUnit THEN arr
  ELSE LET a == alea + firstUsedUnit
           tmp == FlatGet(arr, row, a)
           a1 == FlatSet(arr, row, a, FlatGet(arr, row, c))
           a2 == FlatSet(a1, row, c, tmp)
       IN Shuffle(a2, row, c - 1, firstUsedUnit, patternSize, alea)

\* createOverlapingRandomPattern, lines 252-286, on the row `row` of arr with
\* the row refRow of refArr as reference pattern; p in units of 1/EtaDen
createOverlapingRandomPattern(arr, row, refArr, refRow, patternSize, p, d) ==
  LET a1 == FlatFill(arr, row, 1..patternSize, LAMBDA i : Sentinel)
      firstUsedUnit == patternSize + 1
      cnt == ((EtaDen - p) * patternSize) \div EtaDen
      a2 == FlatFill(a1, row, firstUsedUnit..(firstUsedUnit + cnt - 1),
                     LAMBDA i : Sentinel)
      i == firstUsedUnit + cnt
      a3 == createSimilarRandomPattern(a2, row, refArr, refRow,
              param_itemDistractorNoise, i, i + patternSize \div 4, d.dev)
      a4 == Shuffle(a3, row, firstUsedUnit + patternSize, firstUsedUnit,
                    patternSize, d.alea)
  IN FlatFill(a4, row, (i + patternSize + 1)..patternSize, LAMBDA j : Sentinel)

\* the highest index createOverlapingRandomPattern reads of the reference
LastRead(patternSize, p) ==
  patternSize + 1 + ((EtaDen - p) * patternSize) \div EtaDen + patternSize \div 4
\* the highest index it writes of the pattern
LastWritten(patternSize, p) ==
  IF LastRead(patternSize, p) > 2 * patternSize + 1
  THEN LastRead(patternSize, p) ELSE 2 * patternSize + 1

\* ------------------------------------------------------------------- encode
\* for (j=1;j<=nbItemUnits;j++) dst[item][j]=src[item][j];
CopyRow(dst, item, src) ==
  IF item \in DOMAIN dst
  THEN [dst EXCEPT ![item] = [j \in ItemCols |->
          IF j \in ItemUnits THEN RowAt(src, item, ItemCols)[j] ELSE @[j]]]
  ELSE dst

Strengthen_Mut(ipm, item, pv, eta) ==
  IF item \in DOMAIN ipm
  THEN [ipm EXCEPT ![item] = [j \in PosCols |->
          IF j \in PosUnits
          THEN @[j] + ((param_L - @[j]) * eta) \div EtaDen ELSE @[j]]]
  ELSE ipm

Strengthen_NoCeiling(ipm, item, pv, eta) ==
  IF item \in DOMAIN ipm
  THEN [ipm EXCEPT ![item] = [j \in PosCols |->
          IF j \in PosUnits /\ pv[j] # 0
          THEN @[j] + (param_L * eta) \div EtaDen ELSE @[j]]]
  ELSE ipm

\* lines 538-541: itemPositionMatrix[item][j]+=(param_L-...)*var_eta
Strengthen(ipm, item, pv, eta) ==
  IF item \in DOMAIN ipm
  THEN [ipm EXCEPT ![item] = [j \in PosCols |->
          IF j \in PosUnits /\ pv[j] # 0
          THEN @[j] + ((param_L - @[j]) * eta) \div EtaDen ELSE @[j]]]
  ELSE ipm

\* interfere(arr[target], source, p) on a row of an array
InterfereRow(arr, target, source, p) ==
  IF target \in DOMAIN arr
  THEN [arr EXCEPT ![target] = interfere(@, source, p)] ELSE arr

\* lines 452-493: durations and var_eta
EncodeRates(s0, initialEncoding, currentItem, timeLeft, strengthDivisor, duration, distractor, var_r) ==
  IF initialEncoding = 1
  THEN IF distractor = 1
       THEN [s |-> s0, encodingDuration |-> 0]
       ELSE LET te == min(LogOverRate(logTauE, var_r), presentationTime)
            IN [s |-> Trace([s0 EXCEPT
                         !.itemVectorsInWM = CopyRow(@, currentItem, s0.itemVectorsInLTM),
                         !.var_te = te,
                         !.var_eta = EtaDen - ExpNeg(RateTimesTicks(var_r, te))],
                       "Encoding duration"),
                encodingDuration |-> te]
  ELSE LET tr == IF duration = -1
                 THEN min(LogOverRate(logInvTauR, var_r), timeLeft)
                 ELSE s0.var_tr
           dur == IF duration = -1 THEN tr ELSE duration
       IN [s |-> [s0 EXCEPT
                    !.var_tr = tr,
                    !.var_eta = (EtaDen - ExpNeg(RateTimesTicks(var_r, dur)))
                                  \div strengthDivisor],
           encodingDuration |-> dur]

\* lines 508-515: is a distractor pattern created, and for which distractor
CreatesPattern(s) == s.param.param_sameDist # 1 \/ s.distractorNumber = 0
DistractorRow(s) ==
  maxMemoranda + (IF s.param.param_sameDist = 1 /\ s.distractorNumber = 0
                  THEN 1 ELSE s.distractorNumber)

\* an access of createOverlapingRandomPattern falls outside the arrays
PastTheArrays(s, retrievedItem) ==
  \/ DistractorRow(s) \notin ItemRows
  \/ /\ CreatesPattern(s)
     /\ FlatRow(DistractorRow(s), LastWritten(nbItemUnits, param_itemDistractorOverlap))
          \notin ItemRows
  \/ /\ CreatesPattern(s)
     /\ FlatRow(retrievedItem, LastRead(nbItemUnits, param_itemDistractorOverlap))
          \notin ItemRows

\* lines 508-515, after the retrieval r: the pattern of a new distractor
DistractorCreated(r, d) ==
  IF CreatesPattern(r.s)
  THEN Trace([r.s EXCEPT
                !.distractorNumber = DistractorRow(r.s) - maxMemoranda,
                !.itemVectorsInLTM =
                   createOverlapingRandomPattern(@, DistractorRow(r.s),
                     r.s.itemVectorsInWM, r.retrievedItem, nbItemUnits,
                     param_itemDistractorOverlap, d),
                !.ub = @ \/ PastTheArrays(r.s, r.retrievedItem)],
             "Create a distractor")
  ELSE r.s

\* lines 518-535: the distractor's LTM row is copied to WM and interferes with
\* the retrieved item
DistractorCopied(s, retrievedItem) ==
  Trace([s EXCEPT
           !.itemVectorsInWM =
              InterfereRow(CopyRow(@, maxMemoranda + s.distractorNumber,
                                   s.itemVectorsInLTM),
                           retrievedItem,
                           RowAt(CopyRow(@, maxMemoranda + s.distractorNumber,
                                         s.itemVectorsInLTM),
                                 maxMemoranda + s.distractorNumber, ItemCols),
                           distractorEncodingWeight),
           !.ub = @ \/ (maxMemoranda + s.distractorNumber) \notin ItemRows,
           !.var_eta = (@ * distractorEncodingWeight) \div EtaDen],
        "retrieved and altered by the distractor")

\* lines 508-535, after the retrieval r
DistractorEncoded(r, d) == DistractorCopied(DistractorCreated(r, d), r.retrievedItem)

\* lines 504-536: the encoding of a distractor
EncodeDistractor(s0, pos, d) == DistractorEncoded(retrieve(s0, pos, 1, d), d)

\* lines 495-499: the clock advances and the other items decay
EncodeDecay(e, currentItem, duration, distractor) ==
  [e EXCEPT
     !.s.globalTime = @ + e.encodingDuration,
     !.s.itemPositionMatrix =
        IF distractor = 0 /\ duration = -1
        THEN decay(@, ExpNeg(e.s.param.param_D * e.encodingDuration), EtaDen,
                   currentItem)
        ELSE @]

\* lines 539-541: the associations of currentItem with the position
EncodeAssociation(s, currentItem, pos) ==
  [s EXCEPT !.itemPositionMatrix =
              Strengthen(@, currentItem, s.positionVectors[pos], s.var_eta),
            !.ub = @ \/ currentItem \notin ItemRows]

\* lines 544-550: a refreshed WM item moves closer to the LTM item
EncodeCloser(s, initialEncoding, currentItem, bestWM, distractor) ==
  IF initialEncoding = 0 /\ distractor = 0
  THEN Trace([s EXCEPT !.itemVectorsInWM =
                InterfereRow(@, bestWM, RowAt(s.itemVectorsInLTM, currentItem, ItemCols),
                             EtaDen \div 2)],
             "Move WM item closer to LTM item")
  ELSE s

\* lines 495-552, after the durations and var_eta are set
Encoded(e, initialEncoding, currentItem, bestWM, pos, distractor, d) ==
  [s |-> EncodeCloser(
           EncodeAssociation(
             IF distractor = 1 THEN EncodeDistractor(e.s, pos, d) ELSE e.s,
             currentItem, pos),
           initialEncoding, currentItem, bestWM, distractor),
   encodingDuration |-> e.encodingDuration]

\* encode, lines 435-553.  d.r is the rate drawn at line 448.
encode(s0, initialEncoding, currentItem, bestWM, pos, timeLeft, strengthDivisor, duration, distractor, d) ==
  Encoded(EncodeDecay(EncodeRates(s0, initialEncoding, currentItem, timeLeft,
                                  strengthDivisor, duration, distractor,
                                  FloorRate(d.r)),
                      currentItem, duration, distractor),
          initialEncoding, currentItem, bestWM, pos, distractor, d)

Reencoded_Mut(acc, r, e, lastPos) ==
  [s |-> Trace(e.s, "is reencoded"),
   cpi |-> acc.cpi + 1,
   reencodingDuration |-> e.encodingDuration,
   bestLTMItem |-> r.retrievedItem,
   bestWMItem |-> r.bestWMItem,
   activationMax |-> r.activationMax]

\* ------------------------------------------------- refresh, processing, recall
\* lines 596-601: the cursor moves on, wrapping after the last position
Reencoded(acc, r, e, lastPos) ==
  [s |-> Trace(e.s, "is reencoded"),
   cpi |-> IF acc.cpi + 1 > lastPos THEN 1 ELSE acc.cpi + 1,
   reencodingDuration |-> e.encodingDuration,
   bestLTMItem |-> r.retrievedItem,
   bestWMItem |-> r.bestWMItem,
   activationMax |-> r.activationMax]

\* lines 587-601: the retrieved item r is reencoded
Reencode(acc, r, timeLeft, lastPos, d) ==
  Reencoded(acc, r,
            encode(Trace(r.s, "It is refreshed."), 0, r.retrievedItem, r.bestWMItem,
                   acc.cpi, timeLeft,
                   min(r.s.param.param_attentionalFocusSize, lastPos),
                   acc.reencodingDuration, 0, d),
            lastPos)

RECURSIVE RefreshWindow(_, _, _, _, _)
\* lines 586-602: the positions of one attentional window; acc carries the
\* program state s, cpi, reencodingDuration and the results of retrieve
RefreshWindow(acc, afsi, timeLeft, lastPos, d) ==
  IF afsi <= 0 THEN acc
  ELSE RefreshWindow(Reencode(acc, retrieve(acc.s, acc.cpi, 1, d), timeLeft,
                              lastPos, d),
                     afsi - 1, timeLeft, lastPos, d)

RefreshTurnEnd_Mut(w, timeLeft) ==
  [s |-> w.s, currentPosition |-> w.cpi, timeAvailable |-> timeLeft,
   bestLTMItem |-> w.bestLTMItem, bestWMItem |-> w.bestWMItem,
   activationMax |-> w.activationMax]

\* lines 603-606
RefreshTurnEnd(w, timeLeft) ==
  [s |-> w.s, currentPosition |-> w.cpi,
   timeAvailable |-> IF timeLeft - w.reencodingDuration < 0 THEN 0
                     ELSE timeLeft - w.reencodingDuration,
   bestLTMItem |-> w.bestLTMItem, bestWMItem |-> w.bestWMItem,
   activationMax |-> w.activationMax]

\* refresh, lines 581-607: one turn of the while loop
refreshTurn(s, timeLeft, curPos, lastPos, loc, d) ==
  RefreshTurnEnd(
    RefreshWindow([s |-> s, cpi |-> curPos, reencodingDuration |-> -1,
                   bestLTMItem |-> loc.bestLTMItem,
                   bestWMItem |-> loc.bestWMItem,
                   activationMax |-> loc.activationMax],
                  min(s.param.param_attentionalFocusSize, lastPos),
                  timeLeft, lastPos, d),
    timeLeft)

\* lines 618-623: the operation cannot last as long as planned
Stopped(s, d) ==
  /\ LogOverRate(logTauOp, FloorRate(d.rop)) > s.param.param_freeTime
  /\ s.param.param_freeTimeIncludesOpDuration = 1

\* lines 618-626: the duration of the operation, d.rop the rate drawn
ProcessingTime(s, d) ==
  IF Stopped(s, d) THEN s.param.param_freeTime
  ELSE LogOverRate(logTauOp, FloorRate(d.rop))

Processed_Mut(s, ta, lastPos, d) ==
  [s |-> [encode([s EXCEPT !.var_ta = ta], 1, maxMemoranda + s.distractorNumber,
                 -1, lastPos, 9999, 1, ta, 1, d).s EXCEPT
            !.globalTime = @ + ta,
            !.itemPositionMatrix = decay(@, ExpNeg(s.param.param_D * ta), EtaDen,
                                         maxMemoranda + s.distractorNumber)],
   var_ta |-> ta]

\* lines 638-645, ta the duration of the operation
Processed(s, ta, lastPos, d) ==
  [s |-> [encode([s EXCEPT !.var_ta = ta], 1, maxMemoranda + s.distractorNumber,
                 -1, lastPos, 9999, 1, ta, 1, d).s EXCEPT
            !.globalTime = @ + ta,
            !.itemPositionMatrix = decay(@, ExpNeg(s.param.param_D * ta), EtaDen, -1)],
   var_ta |-> ta]

\* processing, lines 614-646
processing(s0, lastPos, d) ==
  Processed(Trace(IF Stopped(s0, d) THEN Trace(s0, "Process stopped.") ELSE s0,
                  "Processing duration"),
            ProcessingTime(s0, d), lastPos, d)

Alphabet == <<"A", "B", "C", "D", "E", "F", "G", "H", "I", "J", "K", "L", "M",
              "N", "O", "P", "Q", "R", "S", "T", "U", "V", "W", "X", "Y", "Z">>
\* 26 in the source
nbLetters == MaxLetters
Letters == {Alphabet[i] : i \in 1..nbLetters}

\* lines 713-715: response suppression
Suppress(ipm, wm, bestLTM, actMax) ==
  IF bestLTM \in DOMAIN ipm
  THEN [ipm EXCEPT ![bestLTM] = [j \in PosCols |->
          IF j \in PosUnits /\ wm[bestLTM][j] # 0
          THEN @[j] - (param_L * actMax) \div One ELSE @[j]]]
  ELSE ipm

codeItemOf_Mut(bestLTM, actMax, theta) ==
  IF actMax >= theta
  THEN IF bestLTM >= 1 /\ bestLTM <= nbLetters THEN Alphabet[bestLTM] ELSE "*"
  ELSE "."

\* lines 705-709 and 717-718: the symbol recalled at a position
codeItemOf(bestLTM, actMax, theta) ==
  IF actMax > theta
  THEN IF bestLTM >= 1 /\ bestLTM <= nbLetters THEN Alphabet[bestLTM] ELSE "*"
  ELSE "."

\* lines 692-693
RecallTime(r) == IF r.retrievalDuration > 10 THEN 10 ELSE r.retrievalDuration

\* lines 692-725, after the retrieval r
Recalled(r, pos, rec) ==
  [s |-> [Trace(r.s, "is retrieved") EXCEPT
            !.itemPositionMatrix =
               IF r.activationMax > r.s.param.param_theta
               THEN Suppress(decay(@, ExpNeg(r.s.param.param_D * RecallTime(r)),
                                   EtaDen, -1),
                             r.s.itemVectorsInWM, r.retrievedItem, r.activationMax)
               ELSE decay(@, ExpNeg(r.s.param.param_D * RecallTime(r)), EtaDen, -1),
            !.globalTime = @ + RecallTime(r)],
   recalled |-> [rec EXCEPT ![pos - 1] =
                   codeItemOf(r.retrievedItem, r.activationMax,
                              r.s.param.param_theta)],
   bestLTMItem |-> r.retrievedItem, bestWMItem |-> r.bestWMItem,
   activationMax |-> r.activationMax]

\* recall, lines 690-726: one turn of the for loop, at position pos
recallTurn(s0, pos, rec, d) == Recalled(retrieve(s0, pos, 0, d), pos, rec)

\* ------------------------------------------------------------------- main
\* int PRESET=1: the memoranda are copied from the embedding table
PRESET == 1

\* generateItemRepresentations, lines 779-805; rnd holds the values
\* createRandomPattern would draw
generateItemRepresentations(itemVectors, table, rnd) ==
  [i \in ItemRows |-> [j \in ItemCols |->
     IF j \in ItemUnits /\ i \in 1..maxMemoranda
     THEN IF PRESET = 0 THEN rnd[i][j] ELSE table[i][j]
     ELSE IF j \in ItemUnits /\ i \in (maxMemoranda + 1)..maxItem
     THEN Sentinel
     ELSE itemVectors[i][j]]]

\* lines 999-1001
ZeroMatrix(ipm) ==
  [i \in ItemRows |-> [j \in PosCols |->
     IF i \in Items /\ j \in PosUnits THEN 0 ELSE ipm[i][j]]]

\* lines 964-972 and 1014: the stimulus at an index, for nbm memoranda each
\* followed by nbo operations, then the recall sign
Symbol(nbm, nbo, idx) ==
  IF idx >= nbm * (nbo + 1) THEN [kind |-> "#", item |-> 0]
  ELSE IF idx % (nbo + 1) = 0
       THEN [kind |-> "letter", item |-> idx \div (nbo + 1) + 1]
       ELSE [kind |-> "digit", item |-> idx % (nbo + 1)]

\* the variables of the program's functions, with VERBOSE set to v
Cur(v) ==
  [positionVectors |-> positionVectors, itemVectorsInWM |-> itemVectorsInWM,
   itemVectorsInLTM |-> itemVectorsInLTM, itemPositionMatrix |-> itemPositionMatrix,
   globalTime |-> globalTime, distractorNumber |-> distractorNumber,
   lastItem |-> lastItem, var_te |-> var_te, var_tr |-> var_tr,
   var_eta |-> var_eta, var_ta |-> var_ta,
   param |-> [param EXCEPT !.VERBOSE = v], out |-> <<>>, ub |-> ub]

\* the variables of main, refresh and recall
Main ==
  [pc |-> pc, lastPosition |-> lastPosition, idxstimulus |-> idxstimulus,
   recalled |-> recalled, timeAvailable |-> timeAvailable,
   currentPosition |-> currentPosition, position |-> position,
   activationMax |-> activationMax, bestLTMItem |-> bestLTMItem,
   bestWMItem |-> bestWMItem, minTrueActivation |-> minTrueActivation]

CurSymbol(s, m) == Symbol(s.param.nbmemo, s.param.nbop, m.idxstimulus)

\* lines 1029: refresh is entered with the time the encoding left
Memorized(e, m) ==
  [s |-> e.s,
   m |-> [m EXCEPT !.idxstimulus = @ + 1, !.lastPosition = @ + 1,
                   !.timeAvailable = presentationTime - e.encodingDuration,
                   !.currentPosition = 1, !.pc = "refresh"]]

\* lines 1017-1031: a memorandum is encoded, then refresh is entered
memorize(s, m, d) ==
  Memorized(encode([Trace(s, "MEMORIZING") EXCEPT !.lastItem = CurSymbol(s, m).item],
                   1, CurSymbol(s, m).item, -1, m.lastPosition + 1,
                   presentationTime, 1, -1, 0, d),
            m)

RefreshStepped(t, m) ==
  [s |-> t.s,
   m |-> [m EXCEPT !.timeAvailable = t.timeAvailable,
                   !.currentPosition = t.currentPosition,
                   !.bestLTMItem = t.bestLTMItem, !.bestWMItem = t.bestWMItem,
                   !.activationMax = t.activationMax]]

\* lines 581-607: one turn of the loop of refresh
refreshStep(s, m, d) ==
  RefreshStepped(refreshTurn(s, m.timeAvailable, m.currentPosition, m.lastPosition,
                             m, d), m)

\* line 581, timeAvailable <= 0: refresh returns to the main loop
refreshReturn(s, m) == [s |-> s, m |-> [m EXCEPT !.pc = "main"]]

\* lines 1045-1046: error() prints its message and exits
tooManyDistractors(s, m) ==
  [s |-> Trace(s, "PROCESSING"),
   m |-> [m EXCEPT !.idxstimulus = @ + 1, !.pc = "error"]]

\* lines 1051-1064: refresh is entered with the free time that is left
ProcessedThenRefresh(p, m) ==
  [s |-> p.s,
   m |-> [m EXCEPT !.idxstimulus = @ + 1,
                   !.timeAvailable =
                      IF p.s.param.param_freeTimeIncludesOpDuration # 0
                      THEN p.s.param.param_freeTime - p.var_ta
                      ELSE p.s.param.param_freeTime,
                   !.currentPosition = 1, !.pc = "refresh"]]

\* lines 1047-1064: an operation is processed, then refresh is entered
process(s, m, d) ==
  ProcessedThenRefresh(
    processing(Trace(IF s.param.param_sameDist = 0
                     THEN [s EXCEPT !.distractorNumber = @ + 1] ELSE s,
                     "PROCESSING"),
               m.lastPosition, d),
    m)

\* the lowest activation, noise apart, of a studied item at its own position
MinTrueActivation(s, lastPos) ==
  LET acts == {Activation(s, q, q, 0) : q \in 1..lastPos}
  IN IF acts = {} THEN Huge ELSE CHOOSE a \in acts : \A b \in acts : a <= b

\* lines 1074-1079 and 690: recall is entered
recallStart(s, m) ==
  [s |-> Trace(s, "RECALL"),
   m |-> [m EXCEPT !.idxstimulus = @ + 1, !.position = 1, !.pc = "recall",
                   !.minTrueActivation = MinTrueActivation(s, m.lastPosition)]]

RecallStepped(t, m) ==
  [s |-> t.s,
   m |-> [m EXCEPT !.recalled = t.recalled, !.position = @ + 1,
                   !.bestLTMItem = t.bestLTMItem, !.bestWMItem = t.bestWMItem,
                   !.activationMax = t.activationMax]]

\* lines 690-726: one turn of the loop of recall
recallStep(s, m, d) == RecallStepped(recallTurn(s, m.position, m.recalled, d), m)

\* line 727: recalled[lastPosition]='\0', and the trial is over
recallEnd(s, m) ==
  [s |-> s, m |-> [m EXCEPT !.recalled[m.lastPosition] = "NUL", !.pc = "done"]]

\* strlen
RECURSIVE StrLenFrom(_, _)
StrLenFrom(str, i) ==
  IF i \notin DOMAIN str \/ str[i] = "NUL" THEN i ELSE StrLenFrom(str, i + 1)
StrLen(str) == StrLenFrom(str, 0)

\* ---------------------------------------------------------------- the draws
\* randomNormal(param_R,param_s) and randomNormal(var_Rop,param_s), in tenths
\* of 1/s: a draw under the floor of .1, and the mean
RateDraws == {0, param_R}
\* rand()%patternSize
Aleas == {0, nbItemUnits - 1}
\* randomNormal(0,1) of retrieve, whose scale max(param_sigma,.0001) is 0
Noises == {One}
NoDraw == [r |-> param_R, rop |-> param_R, dev |-> One, alea |-> 0, noise |-> One]
\* the draws an encoding, a reencoding or a retrieval for recall makes
RateDrawn == {[NoDraw EXCEPT !.r = r, !.noise = n] : r \in RateDraws, n \in Noises}
\* the draws a processing step makes
ProcessDrawn ==
  {[NoDraw EXCEPT !.rop = r, !.dev = v, !.alea = a, !.noise = n] :
     r \in RateDraws, v \in Deviates, a \in Aleas, n \in Noises}

\* ------------------------------------------------------------- the scenarios
\* theta: the default .05, two thirds, and the activation of a memorandum
\* encoded once at the floor rate for the whole presentation time
param_theta == 7
ThetaHigh == (2 * One) \div 3
ThetaAtFloor ==
  nbUnitBlocks
    * ((param_L * (EtaDen - ExpNeg(RateTimesTicks(FloorRate(0), presentationTime))))
         \div EtaDen)
\* freeTime 1, in ticks
param_freeTime == 2
\* sigma .02
param_sigma == 2

DefaultParam ==
  [nbmemo |-> 1, nbop |-> 0, param_D |-> 1, param_theta |-> param_theta,
   param_sigma |-> param_sigma, param_sameDist |-> 0,
   param_freeTime |-> param_freeTime, param_freeTimeIncludesOpDuration |-> 1,
   param_attentionalFocusSize |-> param_attentionalFocusSize,
   VERBOSE |-> 0]

\* two memoranda and no operation
MemorandaOnly ==
  {[DefaultParam EXCEPT !.nbmemo = 2, !.param_D = c[1], !.param_theta = c[2],
                        !.param_sigma = c[3], !.VERBOSE = c[4],
                        !.param_attentionalFocusSize = c[5]] :
     c \in {<<0, param_theta, 0, 0, param_attentionalFocusSize>>,
             <<0, ThetaAtFloor, 0, 0, param_attentionalFocusSize>>,
             <<1, ThetaHigh, param_sigma, 1, param_attentionalFocusSize>>,
             <<1, param_theta, param_sigma, 0, FocusOfTwo>>}}

\* one memorandum followed by more operations than there are distractor rows
WithOperations ==
  {[DefaultParam EXCEPT !.nbop = maxDistractors + 2, !.param_sameDist = sd,
                        !.VERBOSE = sd] : sd \in {0, 1}}

BlockOf(u) == (u - 1) \div sizeOfPositionBlocks
\* a position whose active unit in block i is the f[i]-th
PositionOf(f) ==
  [u \in PosUnits |-> IF u = BlockOf(u) * sizeOfPositionBlocks + f[BlockOf(u)]
                      THEN 1 ELSE 0]
\* outcomes of generatePositionRepresentations: position 1 has the first unit of
\* each block, position 2 any unit of each block, and every later position
\* keeps the blocks of position 2
GeneratedPositions ==
  {[p \in Positions |-> IF p = 1 THEN PositionOf([i \in Blocks |-> 1])
                        ELSE PositionOf(f)] :
     f \in [Blocks -> 1..sizeOfPositionBlocks]}
FirstPositions ==
  [p \in Positions |-> PositionOf([i \in Blocks |-> 1])]

\* embedding tables: different rows, equal rows, and rows with values that are
\* not in [0,1]
EmbeddingTables ==
  {[i \in 1..maxMemoranda |-> [j \in ItemUnits |->
      IF (i + j) % 2 = 0 THEN One \div 2 ELSE 0]],
   [i \in 1..maxMemoranda |-> [j \in ItemUnits |-> One \div 2]],
   [i \in 1..maxMemoranda |-> [j \in ItemUnits |->
      IF j = 1 THEN 0 - (3 * One) \div 2
      ELSE IF (i + j) % 2 = 0 THEN One \div 4 ELSE 0 - One \div 2]]}

\* what the arrays of main hold before they are written
Garbage == {0, 2 * One}
GarbageArray(g, cols) == [i \in ItemRows |-> [j \in cols |-> g]]

Scenarios ==
  {[param |-> q, positionVectors |-> pv, embeddingsList |-> t, garbage |-> g] :
     q \in MemorandaOnly, pv \in GeneratedPositions, t \in EmbeddingTables,
     g \in Garbage}
  \cup
  {[param |-> q, positionVectors |-> FirstPositions, embeddingsList |-> t,
    garbage |-> 0] :
     q \in WithOperations,
     t \in {e \in EmbeddingTables : e[1][1] = One \div 2 /\ e[1][2] = 0}}

\* ------------------------------------------------------------------ a trial
\* lines 989-1009: the state at the start of the main loop of the first trial
StartOf(sc) ==
  /\ /\ param = sc.param
       /\ positionVectors = sc.positionVectors
       /\ embeddingsList = sc.embeddingsList
       /\ itemVectorsInWM = GarbageArray(sc.garbage, ItemCols)
       /\ itemVectorsInLTM =
            generateItemRepresentations(GarbageArray(sc.garbage, ItemCols),
                                        sc.embeddingsList, sc.embeddingsList)
       /\ itemPositionMatrix = ZeroMatrix(GarbageArray(sc.garbage, PosCols))
  /\ genP = maxPosition + 1 /\ genI = 0
  /\ call = NoCall /\ ret = NoCall
  /\ pc = "main"
  /\ globalTime = 0 /\ distractorNumber = 0 /\ lastItem = 0
  /\ var_te = 0 /\ var_tr = 0 /\ var_eta = 0 /\ var_ta = 0
  /\ ub = FALSE /\ out = <<>>
  /\ lastPosition = 0 /\ idxstimulus = 0
  /\ recalled = [i \in 0..maxPosition |-> "?"]
  /\ timeAvailable = 0 /\ currentPosition = 0
  /\ position = 0 /\ activationMax = 0 /\ bestLTMItem = 0 /\ bestWMItem = 0
  /\ minTrueActivation = 0
  /\ cptReplic = 1

TrialInit == \E sc \in Scenarios : StartOf(sc)

Install(n) ==
  /\ itemVectorsInWM' = n.s.itemVectorsInWM
  /\ itemVectorsInLTM' = n.s.itemVectorsInLTM
  /\ itemPositionMatrix' = n.s.itemPositionMatrix
  /\ globalTime' = n.s.globalTime
  /\ distractorNumber' = n.s.distractorNumber
  /\ lastItem' = n.s.lastItem
  /\ var_te' = n.s.var_te /\ var_tr' = n.s.var_tr
  /\ var_eta' = n.s.var_eta /\ var_ta' = n.s.var_ta
  /\ ub' = n.s.ub /\ out' = n.s.out
  /\ pc' = n.m.pc
  /\ lastPosition' = n.m.lastPosition /\ idxstimulus' = n.m.idxstimulus
  /\ recalled' = n.m.recalled /\ timeAvailable' = n.m.timeAvailable
  /\ currentPosition' = n.m.currentPosition /\ position' = n.m.position
  /\ activationMax' = n.m.activationMax /\ bestLTMItem' = n.m.bestLTMItem
  /\ bestWMItem' = n.m.bestWMItem
  /\ minTrueActivation' = n.m.minTrueActivation
  /\ UNCHANGED <<positionVectors, param, genP, genI, call, ret, embeddingsList,
                 cptReplic>>

Memorize ==
  /\ pc = "main" /\ CurSymbol(Cur(param.VERBOSE), Main).kind = "letter"
  /\ \E d \in RateDrawn : Install(memorize(Cur(param.VERBOSE), Main, d))

RefreshStep ==
  /\ pc = "refresh" /\ timeAvailable > 0
  /\ \E d \in RateDrawn : Install(refreshStep(Cur(param.VERBOSE), Main, d))

RefreshReturn ==
  /\ pc = "refresh" /\ timeAvailable <= 0
  /\ Install(refreshReturn(Cur(param.VERBOSE), Main))

TooManyDistractors ==
  /\ pc = "main" /\ CurSymbol(Cur(param.VERBOSE), Main).kind = "digit"
  /\ distractorNumber > maxDistractors
  /\ Install(tooManyDistractors(Cur(param.VERBOSE), Main))

Process ==
  /\ pc = "main" /\ CurSymbol(Cur(param.VERBOSE), Main).kind = "digit"
  /\ ~(distractorNumber > maxDistractors)
  /\ \E d \in ProcessDrawn : Install(process(Cur(param.VERBOSE), Main, d))

RecallStart ==
  /\ pc = "main" /\ CurSymbol(Cur(param.VERBOSE), Main).kind = "#"
  /\ Install(recallStart(Cur(param.VERBOSE), Main))

RecallStep ==
  /\ pc = "recall" /\ position <= lastPosition
  /\ \E d \in RateDrawn : Install(recallStep(Cur(param.VERBOSE), Main, d))

RecallEnd ==
  /\ pc = "recall" /\ position > lastPosition
  /\ Install(recallEnd(Cur(param.VERBOSE), Main))

TrialNext ==
  \/ Memorize \/ RefreshStep \/ RefreshReturn \/ TooManyDistractors \/ Process
  \/ RecallStart \/ RecallStep \/ RecallEnd

SpecTrial == TrialInit /\ [][TrialNext]_vars

\* ------------------------------------------------------------ several trials
\* int nbSimulations=500, or the value given with -n
nbSimulations == MaxTrials

\* the runs that are followed over several trials: one memorandum and no
\* operation, and one memorandum followed by more operations than there are
\* distractor rows
RepeatedScenarios ==
  {[param |-> [DefaultParam EXCEPT !.VERBOSE = v], positionVectors |-> pv,
    embeddingsList |-> t, garbage |-> g] :
     v \in {0, 1}, pv \in GeneratedPositions,
     t \in {e \in EmbeddingTables : e[1][1] = One \div 2 /\ e[1][2] = 0},
     g \in Garbage}
  \cup {sc \in Scenarios : sc.param.nbop > 0}

TrialsInit == \E sc \in RepeatedScenarios : StartOf(sc)

\* lines 1089 and 986-1009: the trial is over, the next one is set up.  The
\* variables of refresh and recall do not outlive their calls.
NextTrial ==
  /\ pc = "done" /\ cptReplic + 1 <= nbSimulations
  /\ cptReplic' = cptReplic + 1
  /\ positionVectors' \in GeneratedPositions
  /\ itemVectorsInLTM' =
       generateItemRepresentations(itemVectorsInLTM, embeddingsList, embeddingsList)
  /\ itemPositionMatrix' = ZeroMatrix(itemPositionMatrix)
  /\ lastPosition' = 0 /\ idxstimulus' = 0 /\ distractorNumber' = 0
  /\ out' = IF param.VERBOSE = 1 THEN <<"ITEM UNITS">> ELSE <<>>
  /\ pc' = "main"
  /\ timeAvailable' = 0 /\ currentPosition' = 0
  /\ position' = 0 /\ activationMax' = 0 /\ bestLTMItem' = 0 /\ bestWMItem' = 0
  /\ minTrueActivation' = 0
  /\ UNCHANGED <<param, embeddingsList, itemVectorsInWM, globalTime, lastItem,
                 var_te, var_tr, var_eta, var_ta, ub, recalled,
                 genP, genI, call, ret>>

TrialsNext ==
  \/ Memorize \/ RefreshStep \/ RefreshReturn \/ TooManyDistractors \/ Process
  \/ RecallStart \/ RecallStep \/ RecallEnd \/ NextTrial

SpecTrials == TrialsInit /\ [][TrialsNext]_vars

\* ------------------------------------------------------------------ claims
InTrial == pc \in {"main", "refresh", "recall", "done", "error"}

\* C2: at every point of a trial, every dimension 1..nbItemUnits of the LTM
\* vector of every item 1..maxItem is in [0,1] or is exactly the sentinel -1.
C2_LTMValuesInRange ==
  InTrial =>
    \A i \in Items : \A j \in ItemUnits :
      \/ itemVectorsInLTM[i][j] = Sentinel
      \/ (itemVectorsInLTM[i][j] >= 0 /\ itemVectorsInLTM[i][j] <= One)

\* the RMSE of a live item's LTM vector to the WM vector of the best WM item
ErrorOf(bestWM, item) ==
  rmse(RowAt(itemVectorsInWM, bestWM, ItemCols),
       RowAt(itemVectorsInLTM, item, ItemCols), nbItemUnits)
LiveItems == 1..(maxMemoranda + distractorNumber)

\* C3: retrieve returns 0 whenever the maximum activation is strictly below
\* theta; otherwise it returns a live item whose LTM vector has the minimum RMSE
\* to the WM vector of bestWMItem among the live items, and no live item of a
\* lower index has that same RMSE.
C3_RetrieveContract ==
  InTrial =>
    \A pos \in Positions : \A status \in {0, 1} : \A d \in RateDrawn :
      LET r == retrieve(Cur(param.VERBOSE), pos, status, d)
      IN IF r.activationMax < param.param_theta
         THEN r.retrievedItem = 0
         ELSE /\ r.retrievedItem \in LiveItems
              /\ \A k \in LiveItems :
                   /\ ErrorOf(r.bestWMItem, r.retrievedItem) <= ErrorOf(r.bestWMItem, k)
                   /\ k < r.retrievedItem =>
                        ErrorOf(r.bestWMItem, r.retrievedItem) < ErrorOf(r.bestWMItem, k)

\* a retrieval at a studied position finds two live items at the same, lowest
\* RMSE and returns the first of them
C3_Witness ==
  /\ pc = "recall" /\ position <= lastPosition
  /\ LET r == retrieve(Cur(param.VERBOSE), position, 0, NoDraw)
     IN /\ r.activationMax >= param.param_theta
        /\ r.retrievedItem >= 1
        /\ \E k \in LiveItems :
             /\ k > r.retrievedItem
             /\ ErrorOf(r.bestWMItem, k) = ErrorOf(r.bestWMItem, r.retrievedItem)

\* the letters of the studied memoranda, in order
StudiedOrder == \A q \in 1..lastPosition : recalled[q - 1] = Alphabet[q]
\* memoranda only, no decay, no noise, theta below the lowest true activation
NeverForgetsCase ==
  /\ pc = "done"
  /\ param.nbop = 0 /\ param.param_D = 0 /\ param.param_sigma = 0
  /\ param.param_theta < minTrueActivation
\* no unit is active in two studied positions
DisjointPositions ==
  \A p \in 1..lastPosition : \A q \in 1..lastPosition :
    p # q => \A u \in PosUnits :
      ~(positionVectors[p][u] # 0 /\ positionVectors[q][u] # 0)
\* no two memoranda have the same LTM vector
DistinctMemoranda ==
  \A i \in 1..maxMemoranda : \A k \in 1..maxMemoranda :
    i # k => rmse(itemVectorsInLTM[i], itemVectorsInLTM[k], nbItemUnits) > 0

\* C6 as stated: in a trial of memoranda only with D = 0, no retrieval noise and
\* theta below the minimum true activation, recall gives the studied order,
\* for every choice of position vectors and drawn rates.
C6_NeverForgets == NeverForgetsCase => StudiedOrder

\* C6, amended: in such a trial recall gives the studied order whenever the
\* studied positions share no active unit and the memoranda have pairwise
\* different LTM vectors.
C6_NeverForgetsDisjoint ==
  (NeverForgetsCase /\ DisjointPositions /\ DistinctMemoranda) => StudiedOrder

\* two memoranda studied at disjoint positions, the first one encoded at the
\* floor rate (the whole presentation time), and recalled in order
C6_Witness ==
  /\ NeverForgetsCase /\ DisjointPositions /\ DistinctMemoranda
  /\ lastPosition = 2
  /\ recalled[0] = "A" /\ recalled[1] = "B"
  /\ minTrueActivation < nbUnitBlocks * (param_L \div 2)

\* a result of an operation, without what was printed
Quiet(n) == [n EXCEPT !.s.out = <<>>, !.s.param.VERBOSE = 0]

\* C7: from every state of a trial and for every draw, an operation run with
\* VERBOSE on and run with VERBOSE off gives the same association matrix, WM
\* and LTM vectors, clock, distractor count, recalled sequence and every other
\* variable: only what is printed differs.
C7_TracingIsSideChannel ==
  /\ (pc = "main" /\ CurSymbol(Cur(0), Main).kind = "letter") =>
       \A d \in RateDrawn :
         Quiet(memorize(Cur(1), Main, d)) = Quiet(memorize(Cur(0), Main, d))
  /\ (pc = "main" /\ CurSymbol(Cur(0), Main).kind = "digit") =>
       /\ \A d \in ProcessDrawn :
            Quiet(process(Cur(1), Main, d)) = Quiet(process(Cur(0), Main, d))
       /\ Quiet(tooManyDistractors(Cur(1), Main))
            = Quiet(tooManyDistractors(Cur(0), Main))
  /\ (pc = "main" /\ CurSymbol(Cur(0), Main).kind = "#") =>
       Quiet(recallStart(Cur(1), Main)) = Quiet(recallStart(Cur(0), Main))
  /\ (pc = "refresh" /\ timeAvailable > 0) =>
       \A d \in RateDrawn :
         Quiet(refreshStep(Cur(1), Main, d)) = Quiet(refreshStep(Cur(0), Main, d))
  /\ (pc = "recall" /\ position <= lastPosition) =>
       \A d \in RateDrawn :
         Quiet(recallStep(Cur(1), Main, d)) = Quiet(recallStep(Cur(0), Main, d))

\* a processing step has run with VERBOSE on and has printed its lines
C7_Witness ==
  /\ pc = "refresh" /\ param.VERBOSE = 1
  /\ distractorNumber >= 1
  /\ Len(out) >= 3

\* C8: the number of distractors never exceeds maxDistractors, so every
\* distractor's item index stays in maxMemoranda+1..maxItem.
C8_DistractorsWithinCapacity ==
  InTrial =>
    /\ distractorNumber <= maxDistractors
    /\ maxMemoranda + distractorNumber \in ItemRows

\* C9: recall visits the positions 1..lastPosition in increasing order and
\* writes one symbol at each, a letter or "*" if and only if the retrieval's
\* activationMax is strictly greater than theta and "." otherwise; the recalled
\* sequence has length lastPosition.
C9_RecallOneSymbolPerPosition ==
  [][/\ (pc = "main" /\ pc' = "recall") => position' = 1
     /\ (pc = "recall" /\ pc' = "recall") =>
          /\ position <= lastPosition /\ position' = position + 1
          /\ \A i \in DOMAIN recalled :
               i # position - 1 => recalled'[i] = recalled[i]
          /\ recalled'[position - 1] \in Letters \cup {"*"}
               <=> activationMax' > param.param_theta
          /\ recalled'[position - 1] = "."
               <=> ~(activationMax' > param.param_theta)
     /\ (pc = "recall" /\ pc' = "done") =>
          /\ position = lastPosition + 1
          /\ StrLen(recalled') = lastPosition]_vars

\* a recall of two positions, one answered with a letter and one with "."
C9_Witness ==
  /\ pc = "done" /\ lastPosition = 2
  /\ \E i \in 0..1 : recalled[i] \in Letters
  /\ \E i \in 0..1 : recalled[i] = "."
  /\ StrLen(recalled) = 2

\* C10: when recall succeeds at a position, response suppression subtracts
\* L*activationMax from the weights of the best WM item, at the indices where
\* that item's WM vector is non-zero, and changes no other weight (the decay
\* of the retrieval apart).
C10_SuppressesBestWMItem ==
  [][(pc = "recall" /\ pc' = "recall" /\ activationMax' > param.param_theta) =>
       \A i \in Items : \A j \in PosUnits :
         itemPositionMatrix'[i][j] =
           decay(itemPositionMatrix,
                 ExpNeg(param.param_D * (IF var_tr' > 10 THEN 10 ELSE var_tr')),
                 EtaDen, -1)[i][j]
           - (IF i = bestWMItem' /\ itemVectorsInWM[i][j] # 0
              THEN (param_L * activationMax') \div One ELSE 0)]_vars

\* the scale max(sigma, 1e-4) of the retrieval noise
NoiseScale == IF param.param_sigma >= NoiseFloor THEN param.param_sigma ELSE NoiseFloor

\* C11: in retrieve the noise added to the activation of every live item is
\* the standard normal deviate times max(sigma, 1e-4): the scale is sigma for
\* every sigma >= 1e-4, and it is strictly positive.
C11_NoiseScaledBySigma ==
  InTrial =>
    \A pos \in Positions : \A item \in LiveItems : \A n \in Noises :
      /\ NoiseScale > 0
      /\ Activation(Cur(param.VERBOSE), pos, item, n)
           - Activation(Cur(param.VERBOSE), pos, item, 0)
         = (n * NoiseScale) \div One

\* the program has a next step exactly when it has not ended
Running == pc \in {"main", "refresh", "recall"}
\* the program runs on: a step that can be taken is taken.  This is the weak
\* fairness of TrialNext, with Running written for ENABLED <<TrialNext>>_vars
SpecTrialFair == SpecTrial /\ ([]<>(~Running) \/ []<><<TrialNext>>_vars)

ActivationAt(pos, item, d) == Activation(Cur(param.VERBOSE), pos, item, d.noise)

\* C13: the best WM item of a retrieval is a live item whose activation at the
\* cued position is the maximum over the live items, activationMax is that
\* activation, and no live item of a lower index has the same activation.
C13_BestWMItemIsFirstMaximum ==
  InTrial =>
    \A pos \in Positions : \A d \in RateDrawn :
      LET b == BestWM(Cur(param.VERBOSE), pos, d)
      IN /\ b.bestWMItem \in LiveItems
         /\ b.activationMax = ActivationAt(pos, b.bestWMItem, d)
         /\ \A k \in LiveItems :
              /\ ActivationAt(pos, k, d) <= b.activationMax
              /\ k < b.bestWMItem => ActivationAt(pos, k, d) < b.activationMax

\* two studied memoranda have the same, positive activation at the second
\* position, the highest there, and the first of them is the best WM item
C13_Witness ==
  /\ pc = "recall" /\ lastPosition = 2 /\ position = 1
  /\ ActivationAt(2, 1, NoDraw) > 0
  /\ ActivationAt(2, 1, NoDraw) = ActivationAt(2, 2, NoDraw)
  /\ BestWM(Cur(param.VERBOSE), 2, NoDraw).bestWMItem = 1

\* the main loop of a trial is about to read its first stimulus
TrialStart == pc = "main" /\ idxstimulus = 0

\* C14: the state a trial starts from is the state the first trial starts
\* from: the association matrix is zero, the LTM vectors are the generated
\* ones, the WM vectors are unwritten, lastPosition and distractorNumber are 0,
\* and the clock and the model variables (eta, durations) are 0.
C14_TrialStartsFresh ==
  TrialStart =>
    /\ lastPosition = 0 /\ distractorNumber = 0
    /\ \A i \in Items : \A j \in PosUnits : itemPositionMatrix[i][j] = 0
    /\ globalTime = 0
    /\ var_te = 0 /\ var_tr = 0 /\ var_eta = 0 /\ var_ta = 0
    /\ \E g \in Garbage :
         /\ itemVectorsInWM = GarbageArray(g, ItemCols)
         /\ itemVectorsInLTM =
              generateItemRepresentations(GarbageArray(g, ItemCols),
                                          embeddingsList, embeddingsList)

\* the number of times a line was printed
CountLines(lines, line) == Cardinality({i \in DOMAIN lines : lines[i] = line})
\* the positions of the window of w positions that starts at the cursor
WindowOf(cursor, w, lastPos) ==
  {((cursor - 1 + k) % lastPos) + 1 : k \in 0..(w - 1)}

\* C15: a refresh call starts with its cursor at position 1.  A turn of its
\* loop retrieves and reencodes min(attentionalFocusSize, lastPosition)
\* positions, the ones from the cursor on, in 1..lastPosition and wrapping
\* after lastPosition: only units of those positions are strengthened, the
\* clock advances by one and the same duration for each of them, the time
\* available is lowered once by that duration (and not below 0), and the
\* cursor ends just past the window.
C15_RefreshWindow ==
  [][/\ (pc # "refresh" /\ pc' = "refresh") => currentPosition' = 1
     /\ (pc = "refresh" /\ timeAvailable > 0) =>
          LET w == min(param.param_attentionalFocusSize, lastPosition)
          IN /\ currentPosition \in 1..lastPosition
             /\ currentPosition' = ((currentPosition - 1 + w) % lastPosition) + 1
             /\ globalTime' = globalTime + w * var_tr'
             /\ timeAvailable' = IF timeAvailable - var_tr' < 0 THEN 0
                                 ELSE timeAvailable - var_tr'
             /\ param.VERBOSE = 1 =>
                  /\ CountLines(out', "It is refreshed.") = w
                  /\ CountLines(out', "is reencoded") = w
             /\ \A i \in ItemRows : \A j \in PosUnits :
                  itemPositionMatrix'[i][j] > itemPositionMatrix[i][j] =>
                    \E q \in WindowOf(currentPosition, w, lastPosition) :
                      positionVectors[q][j] # 0]_vars

\* a refresh with a focus of two positions after the second memorandum: one
\* window of two reencodings is done, the time available was lowered once
C15_Witness ==
  /\ pc = "refresh" /\ param.param_attentionalFocusSize = 2
  /\ lastPosition = 2 /\ currentPosition = 1
  /\ var_tr > 0 /\ timeAvailable > 0
  /\ timeAvailable + var_tr + var_te = presentationTime

\* one weight after a decay by exp(-D*ta)
DecayedOnce(w, ta) == IF w # 0 THEN (w * ExpNeg(param.param_D * ta)) \div EtaDen ELSE w
\* a weight strengthened at the rate eta
StrengthenedOnce(w, eta) == w + ((param_L - w) * eta) \div EtaDen
\* the stimulus main is about to read is an operation
AtOperation ==
  pc = "main" /\ Symbol(param.nbmemo, param.nbop, idxstimulus).kind = "digit"

\* C16: a processing step of duration ta advances the clock by exactly ta (the
\* encoding of the distractor inside it adds nothing), leaves every weight of
\* every item decayed exactly once by exp(-D*ta), the row of the distractor
\* included, and returns ta; with free time including the operation duration,
\* ta <= freeTime and the time left for the refresh that follows is
\* freeTime - ta >= 0.
C16_ProcessingClockAndDecay ==
  [][(AtOperation /\ pc' = "refresh") =>
       /\ globalTime' = globalTime + var_ta'
       /\ var_ta' > 0
       /\ \A i \in Items : \A j \in PosUnits :
            \/ itemPositionMatrix'[i][j]
                 = DecayedOnce(itemPositionMatrix[i][j], var_ta')
            \/ itemPositionMatrix'[i][j]
                 = DecayedOnce(StrengthenedOnce(itemPositionMatrix[i][j], var_eta'),
                               var_ta')
       /\ param.param_freeTimeIncludesOpDuration = 1 =>
            /\ var_ta' <= param.param_freeTime
            /\ timeAvailable' = param.param_freeTime - var_ta'
            /\ timeAvailable' >= 0]_vars

\* an operation that was stopped at the free time has been processed: its
\* distractor has a weight and no time is left for the refresh
C16_Witness ==
  /\ pc = "refresh" /\ distractorNumber >= 1
  /\ var_ta = param.param_freeTime /\ timeAvailable = 0
  /\ \E j \in PosUnits :
       RowAt(itemPositionMatrix, maxMemoranda + distractorNumber, PosCols)[j] > 0

\* C17: in every processing step, with distractors all the same or all
\* different, the only association row that is strengthened is the row of the
\* distractor whose pattern is in WM after the step, maxMemoranda +
\* distractorNumber, an index in maxMemoranda+1..maxItem: every other row is
\* the old row decayed, and no row of a memorandum is strengthened.
C17_DistractorRowStrengthened ==
  [][(AtOperation /\ pc' = "refresh") =>
       /\ maxMemoranda + distractorNumber' \in (maxMemoranda + 1)..maxItem
       /\ \A i \in Items : \A j \in PosUnits :
            itemPositionMatrix'[i][j] # DecayedOnce(itemPositionMatrix[i][j], var_ta')
              => i = maxMemoranda + distractorNumber']_vars

\* C18: creating the pattern of a distractor writes only the units
\* 1..nbItemUnits of that distractor's LTM vector: a processing step leaves
\* the LTM vector of every other item as it was.
C18_PatternWritesOwnRowOnly ==
  [][(AtOperation /\ pc' = "refresh") =>
       \A i \in ItemRows \ {maxMemoranda + distractorNumber'} :
          itemVectorsInLTM'[i] = itemVectorsInLTM[i]]_vars

\* C19: the item that a turn of refresh retrieves and reencodes is a live item,
\* 1..maxMemoranda+distractorNumber, and no step of a trial (encoding, refresh,
\* processing, recall) strengthens row 0 of the association matrix or changes
\* row 0 of the WM vectors: the 0 that retrieve returns below the threshold is
\* never used as a row.
C19_NoSentinelRow ==
  [][Running =>
       /\ itemPositionMatrix'[0] = itemPositionMatrix[0]
       /\ itemVectorsInWM'[0] = itemVectorsInWM[0]
       /\ (pc = "refresh" /\ pc' = "refresh")
            => bestLTMItem' \in 1..(maxMemoranda + distractorNumber)]_vars

\* C20: with D >= 0, in every state of a trial before recall begins each
\* association weight of each item 1..maxItem lies in [0, param_L]; and a step
\* that takes a weight from non-negative to negative is a step of recall (the
\* response suppression).
C20_WeightsWithinBounds ==
  /\ [](pc \in {"main", "refresh", "error"} =>
          \A i \in Items : \A j \in PosUnits :
             /\ itemPositionMatrix[i][j] >= 0
             /\ itemPositionMatrix[i][j] <= param_L)
  /\ [][(\E i \in Items : \E j \in PosUnits :
           itemPositionMatrix[i][j] >= 0 /\ itemPositionMatrix'[i][j] < 0)
          => pc = "recall"]_vars

\* before recall, an item that was encoded, refreshed and decayed holds a
\* weight strictly between 0 and param_L while a distractor holds one too
C20_Witness ==
  /\ pc = "main" /\ param.param_D > 0 /\ distractorNumber >= 1 /\ globalTime > 0
  /\ \E j \in PosUnits :
       /\ itemPositionMatrix[1][j] > 0 /\ itemPositionMatrix[1][j] < param_L
       /\ itemPositionMatrix[maxMemoranda + 1][j] > 0

\* recall has made a weight negative
C20_SuppressedBelowZero ==
  /\ pc \in {"recall", "done"}
  /\ \E i \in Items : \E j \in PosUnits : itemPositionMatrix[i][j] < 0

\* the learning increment of an encoding at rate r that lasts ta, scaled by
\* the weight of a distractor
StepEta(r, ta) ==
  ((EtaDen - ExpNeg(RateTimesTicks(FloorRate(r), ta))) * distractorEncodingWeight)
    \div EtaDen

\* C21: the learning increment with which a processing step strengthens its
\* distractor is determined by that step alone: it is 1 - exp(-r*ta), for a
\* rate r the step can draw and the step's duration ta, scaled by
\* distractorEncodingWeight; it does not depend on the var_eta an earlier
\* encoding or refresh left behind.
C21_DistractorEtaFromStepAlone ==
  [][(AtOperation /\ pc' = "refresh") =>
       \E r \in RateDraws : var_eta' = StepEta(r, var_ta')]_vars

====
